---- MODULE Spec2Model ----
(***************************************************************************)
(* A model of Data2Text: the record encoder's single-slot cache, the       *)
(* content planner's and the text generator's greedy decoding loops, the   *)
(* per-example training update of both models, the ignite training engine  *)
(* that drives it, and the start-up code that loads or trains a model.     *)
(*                                                                         *)
(* The neural networks are not computed: a forward pass yields any score   *)
(* vector of the shape the code gives it ("for any model"), and every      *)
(* index the code derives from it is computed from that vector.            *)
(***************************************************************************)
EXTENDS Integers, Sequences, FiniteSets, TLC

(***************************************************************************)
(* Bounds of the model.                                                    *)
(***************************************************************************)
MaxRecords == 3        \* records in one record set
NumFeatures == 2       \* distinct record feature values
MaxPlanLen == 3        \* padded length of a content plan
MaxIndexLen == 2       \* length of an index list given to get_encodings
MaxEvalBatches == 1    \* examples in an evaluation loader
VocabSize == 5         \* len(data.idx2word): sentinels, then ordinary words
MaxTextLen == 3        \* padded length of a gold text
MaxCopyLen == 2        \* length of a gold copy-index sequence
MaxEpochs == 8         \* epochs of a training run
MaxRuns == 2           \* processes started one after the other

\* The hard cap on len(text) in eval_generator's loop test.
TextCap == 500

\* save_interval of the ModelCheckpoint handler.
SaveInterval == 4

\* clip: the default threshold given to clip_grad_norm_.
Clip == 7

(***************************************************************************)
(* Sentinel indices of the vocabulary (data.vocab[...]).                   *)
(***************************************************************************)
PAD == 0
BOS == 1
EOS == 2
\* The first ordinary word.
FirstWord == EOS + 1

VARIABLES
    pc,               \* control position of the running function
    params,           \* number of optimizer steps applied to the parameters
    records,          \* the record set last given to RecordEncoder.forward
    encoded,          \* RecordEncoder.encoded: the single-slot cache
    got,              \* the outcome of the running get_encodings call
    selected_content, \* ContentPlanner.selected_content
    content_plan,     \* gold content plan of the current batch
    input_index,      \* planner decoder input
    generated_plan,   \* eval_planner: the plan decoded so far
    size,             \* eval_planner: examples evaluated so far
    loader_len,       \* eval_planner: len(loader)
    gen_content_plan, \* generator batch: the planned records' rows, zero rows are padding
    copy_values,      \* generator batch: the word of each planned record
    gen_encoded,      \* TextGenerator.encoded: the memory the decoder attends to
    input_word,       \* generator decoder input
    text_len,         \* eval_generator: len(text); text[-1] is input_word
    kind,             \* the model in training: "planner" or "generator"
    seq_len,          \* padded length of the training set's gold sequences
    epochs,           \* max_epochs given to trainer.run
    max_iters,        \* len(loader) of the training loader
    ratio,            \* teacher_forcing_ratio, in halves (2 is 1.0)
    epoch,            \* engine.state.epoch
    iteration,        \* engine.state.iteration
    ckpt_iteration,   \* ModelCheckpoint's count of its calls
    events,           \* checkpoints written and evaluation passes run, in order
    text,             \* generator batch: gold text
    copy_tgts,        \* generator batch: gold copy flag of each text position
    copy_indices,     \* generator batch: gold copy index of each flagged position
    use_teacher_forcing,
    pos,              \* position the gold iterator yields next (1-based)
    copy_pos,         \* position copy_index_iter yields next (1-based)
    copy_index,       \* the copy index last taken from copy_index_iter
    loss,             \* the terms added to the integer 0 that loss starts as
    len_sequence,
    grads,            \* state of the parameters' gradients
    state_output,     \* engine.state.output: the last update's return value
    fault,            \* the exception an update raised
    files,            \* which persisted model files exist under models/
    entry,            \* the function a process starts in
    runs,             \* processes started so far
    trained,          \* whether this process called train_planner / train_generator
    file_at_start,    \* whether this process found its model file at start
    result            \* what the entry function returned

encoderVars == <<params, records, encoded, got>>
plannerEvalVars == <<selected_content, content_plan, input_index, generated_plan, size, loader_len>>
generatorEvalVars == <<gen_content_plan, copy_values, gen_encoded, input_word, text_len>>
configVars == <<kind, seq_len, epochs, max_iters, ratio>>
engineVars == <<epoch, iteration, ckpt_iteration, events>>
batchVars == <<text, copy_tgts, copy_indices>>
updateVars == <<use_teacher_forcing, pos, copy_pos, copy_index, loss, len_sequence, grads,
                state_output, fault>>
startupVars == <<files, entry, runs, trained, file_at_start, result>>
trainVars == <<configVars, engineVars, batchVars, updateVars, startupVars>>
vars == <<pc, encoderVars, plannerEvalVars, generatorEvalVars, trainVars>>

(***************************************************************************)
(* Helpers.                                                                *)
(***************************************************************************)
SeqsUpTo(S, n) == UNION {[1..k -> S] : k \in 0..n}

Range(s) == {s[k] : k \in 1..Len(s)}

NoCache == [valid |-> FALSE, rows |-> <<>>]
NoResult == [status |-> "none", index |-> <<>>, rows |-> <<>>]

\* Every record set of 1..MaxRecords records.
RecordSets == UNION {[1..n -> 0..(NumFeatures - 1)] : n \in 1..MaxRecords}

\* One record set of each size.
RecordsOfSize(n) == [i \in 1..n |-> (i - 1) % NumFeatures]

(***************************************************************************)
(* RecordEncoder.                                                          *)
(***************************************************************************)
\* The encoding of record i: its own embedding gated by the attention
\* context over all records, under the current parameters.
EncodeRow(recs, i, w) == [raw |-> recs[i], att |-> Range(recs), w |-> w]

\* RecordEncoder.forward: one row per record.
Encode(recs, w) == [i \in 1..Len(recs) |-> EncodeRow(recs, i, w)]

\* What forward leaves in self.encoded.
StoreEncoded(old, rows) == [valid |-> TRUE, rows |-> rows]

\* torch.gather accepts an index only within the gathered dimension.
InRange(index, n) == \A k \in 1..Len(index) : index[k] \in 0..(n - 1)

\* tensor.gather(1, index): row index[k] (0-based) at position k.
GatherReversed(rows, index) == [k \in 1..Len(index) |-> rows[index[Len(index) + 1 - k] + 1]]
Gather(rows, index) == [k \in 1..Len(index) |-> rows[index[k] + 1]]

\* RecordEncoder.get_encodings(index).
GetEncodingsResult(cache, index) ==
    IF ~cache.valid THEN [status |-> "error", index |-> index, rows |-> <<>>]
    ELSE IF ~InRange(index, Len(cache.rows))
         THEN [status |-> "error", index |-> index, rows |-> <<>>]
         ELSE [status |-> "ok", index |-> index, rows |-> Gather(cache.rows, index)]

\* record_encoder(records)
RecordEncoderForward(recs) ==
    /\ pc = "enc_idle"
    /\ records' = recs
    /\ encoded' = StoreEncoded(encoded, Encode(recs, params))
    /\ UNCHANGED <<pc, params, got, plannerEvalVars, generatorEvalVars, trainVars>>

\* record_encoder.get_encodings(index)
GetEncodings(index) ==
    /\ pc = "enc_idle"
    /\ got' = GetEncodingsResult(encoded, index)
    /\ pc' = "enc_returned"
    /\ UNCHANGED <<params, records, encoded, plannerEvalVars, generatorEvalVars, trainVars>>

\* The caller takes the rows (or the exception) and goes on.
ReturnEncodings ==
    /\ pc = "enc_returned"
    /\ got' = NoResult
    /\ pc' = "enc_idle"
    /\ UNCHANGED <<params, records, encoded, plannerEvalVars, generatorEvalVars, trainVars>>

IdlePlannerEval ==
    /\ selected_content = NoCache
    /\ content_plan = <<>>
    /\ input_index = PAD
    /\ generated_plan = <<>>
    /\ size = 0
    /\ loader_len = 0

IdleGeneratorEval ==
    /\ gen_content_plan = <<>>
    /\ copy_values = <<>>
    /\ gen_encoded = <<>>
    /\ input_word = PAD
    /\ text_len = 0

NoOutput == [loss |-> <<>>, len_sequence |-> 0]
NoGrads == [state |-> "none", of |-> <<>>, max_norm |-> 0]

IdleUpdate ==
    /\ text = <<>>
    /\ copy_tgts = <<>>
    /\ copy_indices = <<>>
    /\ use_teacher_forcing = FALSE
    /\ pos = 0
    /\ copy_pos = 0
    /\ copy_index = 0
    /\ loss = <<>>
    /\ len_sequence = 0
    /\ grads = NoGrads
    /\ state_output = NoOutput
    /\ fault = "none"

IdleEngine ==
    /\ epoch = 0
    /\ iteration = 0
    /\ ckpt_iteration = 0
    /\ events = <<>>

IdleTraining ==
    /\ kind = "none"
    /\ seq_len = 0
    /\ epochs = 0
    /\ max_iters = 0
    /\ ratio = 0
    /\ IdleEngine
    /\ IdleUpdate
    /\ files = [planner |-> FALSE, generator |-> FALSE]
    /\ entry = "none"
    /\ runs = 0
    /\ trained = FALSE
    /\ file_at_start = FALSE
    /\ result = "none"

InitEncoder ==
    /\ pc = "enc_idle"
    /\ params = 0
    /\ records = <<>>
    /\ encoded = NoCache
    /\ got = NoResult
    /\ IdlePlannerEval
    /\ IdleGeneratorEval
    /\ IdleTraining

NextEncoder ==
    \/ \E recs \in RecordSets : RecordEncoderForward(recs)
    \/ \E index \in SeqsUpTo(0..MaxRecords, MaxIndexLen) : GetEncodings(index)
    \/ ReturnEncodings

SpecEncoder == InitEncoder /\ [][NextEncoder]_vars

(***************************************************************************)
(* C6: encode followed by get(indices) returns exactly the rows of the     *)
(* most recent encode's output at those indices, in the given order; the   *)
(* cache never holds the output of an earlier encode.                      *)
(***************************************************************************)
C6_GetReadsLatestEncode ==
    /\ encoded.valid => encoded.rows = Encode(records, params)
    /\ got.status = "ok" =>
          /\ Len(got.rows) = Len(got.index)
          /\ \A k \in 1..Len(got.index) :
                got.rows[k] = Encode(records, params)[got.index[k] + 1]

\* A get of two rows in descending index order whose rows differ.
C6_Witness ==
    /\ got.status = "ok"
    /\ Len(got.index) = 2
    /\ got.index[1] > got.index[2]
    /\ got.rows[1] # got.rows[2]

(***************************************************************************)
(* ContentPlanner and eval_planner (greedy decoding of a content plan).    *)
(***************************************************************************)
\* Gold content plans padded to length len: entries that are record
\* indices (the sentinels are record indices too), then padding.
PaddedPlans(len) ==
    {p \in [1..len -> 0..(MaxRecords - 1)] :
        \A k \in 1..(len - 1) : p[k] = PAD => p[k + 1] = PAD}

\* The shapes a forward pass can return over n positions: one score each.
\* Two score levels are enough for every argmax, ties included.
Outputs(n) == [1..n -> {0, 1}]

\* output.argmax(dim=1): the 0-based position of the first maximal score.
ArgMaxOneBased(output) ==
    CHOOSE i \in 1..Len(output) :
        /\ \A j \in 1..Len(output) : output[j] <= output[i]
        /\ \A j \in 1..(i - 1) : output[j] < output[i]
ArgMax(output) == ArgMaxOneBased(output) - 1

\* The loop test of eval_planner's while.
PlanHasRoomInclusive(plan, gold) == Len(plan) <= Len(gold)
PlanHasRoom(plan, gold) == Len(plan) < Len(gold)

\* ContentPlanner.init_hidden(records) of the next batch, then the start
\* of its decoding; or the end of the loader.
EvalPlannerBatch ==
    /\ pc = "ep_batch"
    /\ IF size < loader_len
       THEN \E n \in 1..MaxRecords, len \in 1..MaxPlanLen :
              \E plan \in PaddedPlans(len) :
                /\ records' = RecordsOfSize(n)
                /\ encoded' = StoreEncoded(encoded, Encode(records', params))
                /\ selected_content' = encoded'
                /\ content_plan' = plan
                /\ input_index' = BOS
                /\ generated_plan' = <<>>
                /\ pc' = "ep_while"
       ELSE /\ pc' = "ep_end"
            /\ UNCHANGED <<records, encoded, selected_content, content_plan,
                           input_index, generated_plan>>
    /\ UNCHANGED <<params, got, size, loader_len, generatorEvalVars, trainVars>>

\* One pass of the while loop: a forward pass, the argmax, the EOS test.
EvalPlannerStep ==
    /\ pc = "ep_while"
    /\ PlanHasRoom(generated_plan, content_plan)
    /\ IF ~InRange(<<input_index>>, Len(selected_content.rows))
       THEN /\ pc' = "ep_fault"
            /\ UNCHANGED <<input_index, generated_plan>>
       ELSE \E output \in Outputs(Len(selected_content.rows)) :
              /\ input_index' = ArgMax(output)
              /\ IF input_index' = EOS
                 THEN pc' = "ep_score" /\ UNCHANGED generated_plan
                 ELSE /\ generated_plan' = Append(generated_plan, input_index')
                      /\ pc' = "ep_while"
    /\ UNCHANGED <<encoderVars, selected_content, content_plan, size, loader_len,
                   generatorEvalVars, trainVars>>

\* The while condition fails: the plan has reached the maximum length.
EvalPlannerExit ==
    /\ pc = "ep_while"
    /\ ~PlanHasRoom(generated_plan, content_plan)
    /\ pc' = "ep_score"
    /\ UNCHANGED <<encoderVars, plannerEvalVars, generatorEvalVars, trainVars>>

\* bleu_metric(gold_plan, generated_plan); size += 1. The pass is over: its
\* locals are not read again before the next pass rebinds them.
EvalPlannerScore ==
    /\ pc = "ep_score"
    /\ size' = size + 1
    /\ content_plan' = <<>>
    /\ input_index' = PAD
    /\ generated_plan' = <<>>
    /\ pc' = "ep_batch"
    /\ UNCHANGED <<encoderVars, selected_content, loader_len, generatorEvalVars, trainVars>>

InitEvalPlanner ==
    /\ pc = "ep_batch"
    /\ params = 0
    /\ records = <<>>
    /\ encoded = NoCache
    /\ got = NoResult
    /\ selected_content = NoCache
    /\ content_plan = <<>>
    /\ input_index = PAD
    /\ generated_plan = <<>>
    /\ size = 0
    /\ loader_len \in 1..MaxEvalBatches
    /\ IdleGeneratorEval
    /\ IdleTraining

NextEvalPlanner ==
    \/ EvalPlannerBatch
    \/ EvalPlannerStep
    \/ EvalPlannerExit
    \/ EvalPlannerScore

\* The interpreter runs the loop on: a step that can be taken is taken.
SpecEvalPlanner == InitEvalPlanner /\ [][NextEvalPlanner]_vars /\ WF_vars(NextEvalPlanner)

(***************************************************************************)
(* C1: greedy decoding always leaves the while loop, by an EOS prediction  *)
(* or at the maximum plan length; the plan never has more entries than     *)
(* content_plan.size(1) and never contains EOS.                            *)
(***************************************************************************)
C1_PlannerDecodingTerminates ==
    /\ [](/\ Len(generated_plan) <= Len(content_plan)
          /\ EOS \notin Range(generated_plan)
          /\ pc = "ep_score" =>
                \/ input_index = EOS
                \/ Len(generated_plan) = Len(content_plan))
    /\ [](pc = "ep_while" => <>(pc \in {"ep_score", "ep_fault"}))
    /\ <>(pc \in {"ep_end", "ep_fault"})

\* A model that never predicts EOS: the plan is full and the loop is left.
C1_Witness ==
    /\ pc = "ep_score"
    /\ input_index # EOS
    /\ Len(content_plan) = MaxPlanLen
    /\ Len(generated_plan) = Len(content_plan)

(***************************************************************************)
(* C3: every index of a decoded plan, and every index fed back into the    *)
(* planner's gather, is a valid index of the record set.                   *)
(***************************************************************************)
C3_PlanIndicesInBounds ==
    pc \in {"ep_while", "ep_score"} =>
        /\ \A k \in 1..Len(generated_plan) :
              generated_plan[k] \in 0..(Len(records) - 1)
        /\ (generated_plan # <<>> \/ pc = "ep_score") =>
              input_index \in 0..(Len(records) - 1)

\* A plan whose last entry is the last record of the set, fed back.
C3_Witness ==
    /\ pc = "ep_while"
    /\ Len(generated_plan) >= 2
    /\ input_index = Len(records) - 1
    /\ generated_plan[Len(generated_plan)] = input_index

(***************************************************************************)
(* TextGenerator and eval_generator (greedy generation of a text).         *)
(***************************************************************************)
\* A generator content plan of len rows, the first n of them planned
\* records and the rest zero padding.
PlanRows(len, n) == [k \in 1..len |-> IF k <= n THEN k ELSE 0]

\* The word each planned record stands for: an ordinary word.
CopyValues(len) == [k \in 1..len |-> FirstWord + ((k - 1) % (VocabSize - FirstWord))]

\* content_plan.nonzero()[:, 1].unique(sorted=True): the 0-based positions
\* of the rows that are not zero padding, ascending.
RECURSIVE NonZero(_)
NonZero(plan) ==
    IF plan = <<>> THEN <<>>
    ELSE LET front == NonZero(SubSeq(plan, 1, Len(plan) - 1))
         IN  IF plan[Len(plan)] # 0 THEN Append(front, Len(plan) - 1) ELSE front

\* TextGenerator.init_hidden(content_plan.gather(1, non_zero)): the memory
\* holds one encoder state per planned record.
EncodeRecods(plan) == Gather(plan, NonZero(plan))

\* The loop test of eval_generator's while.
GenerationGoesOnLate(word, len) == word # EOS /\ len <= TextCap + 1
GenerationGoesOn(word, len) == word # EOS /\ len <= TextCap

\* The word the forward pass selects: the copied record's word when the
\* copy gate is above 0.5, else the most probable vocabulary word.
ChosenWord(p_copy_high, copy_prob, out_prob, values) ==
    IF p_copy_high THEN values[ArgMax(copy_prob) + 1] ELSE ArgMax(out_prob)

\* One pass of the while loop: a forward pass, the choice of the next word,
\* text.append.
EvalGeneratorStep ==
    /\ pc = "eg_while"
    /\ GenerationGoesOn(input_word, text_len)
    /\ \E p_copy_high \in BOOLEAN :
          IF p_copy_high
          THEN \E copy_prob \in Outputs(Len(gen_encoded)) :
                 input_word' = ChosenWord(TRUE, copy_prob, <<>>, copy_values)
          ELSE \E out_prob \in Outputs(VocabSize) :
                 input_word' = ChosenWord(FALSE, <<>>, out_prob, copy_values)
    /\ text_len' = text_len + 1
    /\ UNCHANGED <<pc, encoderVars, plannerEvalVars, gen_content_plan, copy_values,
                   gen_encoded, trainVars>>

\* The while condition fails: the texts are logged.
EvalGeneratorExit ==
    /\ pc = "eg_while"
    /\ ~GenerationGoesOn(input_word, text_len)
    /\ pc' = "eg_done"
    /\ UNCHANGED <<encoderVars, plannerEvalVars, generatorEvalVars, trainVars>>

\* test_random up to the loop: one batch, the memory, text = [BOS].
InitEvalGenerator ==
    /\ pc = "eg_while"
    /\ params = 0
    /\ records = <<>>
    /\ encoded = NoCache
    /\ got = NoResult
    /\ IdlePlannerEval
    /\ \E len \in 1..MaxRecords, n \in 1..MaxRecords :
          /\ n <= len
          /\ gen_content_plan = PlanRows(len, n)
          /\ copy_values = CopyValues(len)
    /\ gen_encoded = EncodeRecods(gen_content_plan)
    /\ input_word = BOS
    /\ text_len = 1
    /\ IdleTraining

NextEvalGenerator ==
    \/ EvalGeneratorStep
    \/ EvalGeneratorExit

\* The interpreter runs the loop on: a step that can be taken is taken.
SpecEvalGenerator ==
    InitEvalGenerator /\ [][NextEvalGenerator]_vars /\ WF_vars(NextEvalGenerator)

(***************************************************************************)
(* C2, as amended: generation always halts, at an EOS word or at the cap;  *)
(* the loop runs at most 500 times, so text, which starts with BOS, never  *)
(* has more than 501 entries.                                              *)
(***************************************************************************)
C2_GenerationHaltsWithin501 ==
    /\ [](/\ text_len <= TextCap + 1
          /\ pc = "eg_done" => (input_word = EOS \/ text_len = TextCap + 1))
    /\ <>(pc = "eg_done")

\* A model that never emits EOS: the text is cut at 501 entries.
C2_Witness ==
    /\ pc = "eg_done"
    /\ input_word # EOS
    /\ text_len = TextCap + 1

\* C2 as stated: the generated token sequence never has more than 500 tokens.
C2_AsClaimed == text_len <= TextCap

(***************************************************************************)
(* Training data.                                                          *)
(***************************************************************************)
\* Planner examples of a training set padded to len: a record set and a
\* gold plan over record indices, some beyond a smaller record set.
PlannerBatches(len) ==
    {[records |-> RecordsOfSize(n), content_plan |-> p] :
        n \in {MaxRecords - 1, MaxRecords}, p \in PaddedPlans(len)}

\* Gold texts padded to len: BOS, ordinary words, at most one EOS as the
\* last word, then padding; or padding only.
PaddedTexts(len) ==
    {t \in [1..len -> {PAD, BOS, EOS, FirstWord}] :
        /\ t[1] \in {PAD, BOS}
        /\ \A k \in 2..len : t[k] # BOS
        /\ \A k \in 1..(len - 1) : t[k] \in {PAD, EOS} => t[k + 1] = PAD}

\* Gold copy flags (0. or 1.) of a text: padding is never flagged.
CopyFlags(t) == {f \in [1..Len(t) -> {0, 1}] : \A k \in 1..Len(t) : t[k] = PAD => f[k] = 0}

\* Gold copy indices: the first and the last planned record, and one past
\* the planned records.
CopyIndices == SeqsUpTo({0, MaxRecords - 2, MaxRecords - 1}, MaxCopyLen)

\* Generator examples of a training set padded to len.
GeneratorBatches(len) ==
    UNION {{[text |-> t, copy_tgts |-> f, copy_indices |-> c] :
               f \in CopyFlags(t), c \in CopyIndices} :
           t \in PaddedTexts(len)}

\* The content plan of a generator example: one row of padding.
GeneratorPlan == PlanRows(MaxRecords, MaxRecords - 1)

(***************************************************************************)
(* The update function of train_planner and train_generator.               *)
(***************************************************************************)
\* The values random() returns, in halves: 0.0 and 0.5.
Rands == {0, 1}

\* use_teacher_forcing = True if random() < teacher_forcing_ratio else False
UseTeacherForcingReversed(rand, tf_ratio) == rand > tf_ratio
UseTeacherForcing(rand, tf_ratio) == rand < tf_ratio

\* The loop over the gold iterator goes on: it has a next item, and that
\* item is not padding.
DecodeGoesOnThroughPadding(gold, p) == p <= Len(gold)
DecodeGoesOn(gold, p) == p <= Len(gold) /\ gold[p] # PAD

\* loss starts as the integer 0 and is a tensor once a term is added.
LossAlwaysTensor(l) == TRUE
LossIsTensor(l) == l # <<>>

\* The trainer registers no handler for Events.EXCEPTION_RAISED: the engine
\* re-raises, and the exception leaves trainer.run and its callers.
HandleExceptionResume(e) == "tr_batch"
HandleException(e) == "aborted"

Raise(e) ==
    /\ fault' = e
    /\ pc' = HandleException(e)

\* The terms of the losses.
NllTerm(p, target) == [kind |-> "nll", pos |-> p, target |-> target]
BceTerm(p, target) == [kind |-> "bce", pos |-> p, target |-> target]
CopyNllTerm(p, target) == [kind |-> "copy_nll", pos |-> p, target |-> target]
VocabNllTerm(p, target) == [kind |-> "vocab_nll", pos |-> p, target |-> target]

\* The two loss terms of a text position.
GeneratorTermsBoth(p, word, copy_tgt, idx) ==
    <<BceTerm(p, copy_tgt), CopyNllTerm(p, idx), VocabNllTerm(p, word)>>
GeneratorTerms(p, word, copy_tgt, idx) ==
    IF copy_tgt # 0
    THEN <<BceTerm(p, copy_tgt), CopyNllTerm(p, idx)>>
    ELSE <<BceTerm(p, copy_tgt), VocabNllTerm(p, word)>>

\* The planner's next decoder input.
NextPlannerInputs(tf, record_pointer, n) ==
    IF tf THEN {record_pointer} ELSE {ArgMax(out) : out \in Outputs(n)}

\* The words a forward pass of the generator can select.
PredictedWords(values, n) ==
    {ChosenWord(TRUE, cp, <<>>, values) : cp \in Outputs(n)}
        \cup {ChosenWord(FALSE, <<>>, op, values) : op \in Outputs(VocabSize)}

\* The generator's next decoder input.
NextGeneratorInputs(tf, word, copy_tgt, idx, values, n) ==
    IF tf
    THEN {IF copy_tgt # 0 THEN values[idx + 1] ELSE word}
    ELSE PredictedWords(values, n)

\* The value _update returns: the summed loss over len_sequence.
ReturnValue(l, n) == [loss |-> l, len_sequence |-> n]

\* The engine takes the next batch and calls _update, which runs up to its
\* loop: zero_grad, the teacher forcing draw, init_hidden, the iterator.
PlannerUpdateStart ==
    /\ pc = "tr_batch"
    /\ kind = "planner"
    /\ iteration < epoch * max_iters
    /\ \E batch \in PlannerBatches(seq_len), rand \in Rands :
          /\ use_teacher_forcing' = UseTeacherForcing(rand, ratio)
          /\ records' = batch.records
          /\ content_plan' = batch.content_plan
          /\ encoded' = StoreEncoded(encoded, Encode(batch.records, params))
          /\ selected_content' = encoded'
          /\ input_index' = batch.content_plan[1]
    /\ iteration' = iteration + 1
    /\ grads' = [state |-> "zero", of |-> <<>>, max_norm |-> 0]
    /\ pos' = 2
    /\ loss' = <<>>
    /\ len_sequence' = 0
    /\ pc' = "up_loop"
    /\ UNCHANGED <<params, got, generated_plan, size, loader_len, generatorEvalVars,
                   configVars, epoch, ckpt_iteration, events, batchVars, copy_pos,
                   copy_index, state_output, fault, startupVars>>

\* One pass of the planner's loop over the gold plan.
PlannerDecodeStep ==
    /\ pc = "up_loop"
    /\ kind = "planner"
    /\ DecodeGoesOn(content_plan, pos)
    /\ LET record_pointer == content_plan[pos]
           n == Len(selected_content.rows)
       IN  IF ~InRange(<<input_index>>, n) \/ ~InRange(<<record_pointer>>, n)
           THEN /\ Raise("IndexError")
                /\ UNCHANGED <<input_index, pos, loss, len_sequence>>
           ELSE /\ loss' = Append(loss, NllTerm(pos, record_pointer))
                /\ len_sequence' = len_sequence + 1
                /\ input_index' \in NextPlannerInputs(use_teacher_forcing, record_pointer, n)
                /\ pos' = pos + 1
                /\ UNCHANGED <<pc, fault>>
    /\ UNCHANGED <<encoderVars, selected_content, content_plan, generated_plan, size,
                   loader_len, generatorEvalVars, configVars, engineVars, batchVars,
                   use_teacher_forcing, copy_pos, copy_index, grads, state_output,
                   startupVars>>

GeneratorUpdateStart ==
    /\ pc = "tr_batch"
    /\ kind = "generator"
    /\ iteration < epoch * max_iters
    /\ \E batch \in GeneratorBatches(seq_len), rand \in Rands :
          /\ use_teacher_forcing' = UseTeacherForcing(rand, ratio)
          /\ text' = batch.text
          /\ copy_tgts' = batch.copy_tgts
          /\ copy_indices' = batch.copy_indices
          /\ input_word' = batch.text[1]
    /\ gen_content_plan' = GeneratorPlan
    /\ copy_values' = CopyValues(Len(GeneratorPlan))
    /\ gen_encoded' = EncodeRecods(GeneratorPlan)
    /\ iteration' = iteration + 1
    /\ grads' = [state |-> "zero", of |-> <<>>, max_norm |-> 0]
    /\ pos' = 2
    /\ copy_pos' = 1
    /\ loss' = <<>>
    /\ len_sequence' = 0
    /\ pc' = "up_loop"
    /\ UNCHANGED <<encoderVars, plannerEvalVars, text_len, configVars, epoch,
                   ckpt_iteration, events, copy_index, state_output, fault, startupVars>>

\* copy_index_iter is advanced by next() at a flagged position only.
NextCopyPosAlways(copy_tgt, cp) == cp + 1
NextCopyPos(copy_tgt, cp) == IF copy_tgt # 0 THEN cp + 1 ELSE cp

\* One pass of the generator's loop over the gold text and copy flags.
GeneratorDecodeStep ==
    /\ pc = "up_loop"
    /\ kind = "generator"
    /\ DecodeGoesOn(text, pos)
    /\ LET word == text[pos]
           copy_tgt == copy_tgts[pos]
           n == Len(gen_encoded)
       IN  IF copy_tgt # 0 /\ copy_pos > Len(copy_indices)
           THEN /\ Raise("StopIteration")
                /\ loss' = Append(loss, BceTerm(pos, copy_tgt))
                /\ UNCHANGED <<input_word, pos, copy_pos, copy_index, len_sequence>>
           ELSE IF copy_tgt # 0 /\ ~InRange(<<copy_indices[copy_pos]>>, n)
           THEN /\ Raise("IndexError")
                /\ loss' = Append(loss, BceTerm(pos, copy_tgt))
                /\ copy_index' = copy_indices[copy_pos]
                /\ copy_pos' = NextCopyPos(copy_tgt, copy_pos)
                /\ UNCHANGED <<input_word, pos, len_sequence>>
           ELSE /\ copy_index' = IF copy_tgt # 0 THEN copy_indices[copy_pos] ELSE copy_index
                /\ copy_pos' = NextCopyPos(copy_tgt, copy_pos)
                /\ loss' = loss \o GeneratorTerms(pos, word, copy_tgt, copy_index')
                /\ len_sequence' = len_sequence + 1
                /\ input_word' \in NextGeneratorInputs(use_teacher_forcing, word, copy_tgt,
                                                      copy_index', copy_values, n)
                /\ pos' = pos + 1
                /\ UNCHANGED <<pc, fault>>
    /\ UNCHANGED <<encoderVars, plannerEvalVars, gen_content_plan, copy_values, gen_encoded,
                   text_len, configVars, engineVars, batchVars, use_teacher_forcing, grads,
                   state_output, startupVars>>

\* The gold iterator is exhausted or yields padding: the loop is left.
DecodeEnd ==
    /\ pc = "up_loop"
    /\ ~DecodeGoesOn(IF kind = "planner" THEN content_plan ELSE text, pos)
    /\ pc' = "up_backward"
    /\ UNCHANGED <<encoderVars, plannerEvalVars, generatorEvalVars, trainVars>>

\* loss.backward()
Backward ==
    /\ pc = "up_backward"
    /\ IF LossIsTensor(loss)
       THEN /\ grads' = [state |-> "computed", of |-> loss, max_norm |-> 0]
            /\ pc' = "up_clip"
            /\ UNCHANGED fault
       ELSE /\ Raise("AttributeError")
            /\ UNCHANGED grads
    /\ UNCHANGED <<encoderVars, plannerEvalVars, generatorEvalVars, configVars, engineVars,
                   batchVars, use_teacher_forcing, pos, copy_pos, copy_index, loss,
                   len_sequence, state_output, startupVars>>

\* nn.utils.clip_grad_norm_(parameters, clip)
ClipGradNormSkipped ==
    /\ pc = "up_clip"
    /\ pc' = "up_step"
    /\ UNCHANGED <<encoderVars, plannerEvalVars, generatorEvalVars, configVars, engineVars,
                   batchVars, updateVars, startupVars>>
ClipGradNorm ==
    /\ pc = "up_clip"
    /\ grads' = [grads EXCEPT !.state = "clipped", !.max_norm = Clip]
    /\ pc' = "up_step"
    /\ UNCHANGED <<encoderVars, plannerEvalVars, generatorEvalVars, configVars, engineVars,
                   batchVars, use_teacher_forcing, pos, copy_pos, copy_index, loss,
                   len_sequence, state_output, fault, startupVars>>

\* optimizer.step()
OptimizerStep ==
    /\ pc = "up_step"
    /\ params' = params + 1
    /\ pc' = "up_return"
    /\ UNCHANGED <<records, encoded, got, plannerEvalVars, generatorEvalVars, configVars,
                   engineVars, batchVars, updateVars, startupVars>>

\* return loss.item() / len_sequence: the value becomes engine.state.output
\* and the call's locals are gone.
UpdateReturn ==
    /\ pc = "up_return"
    /\ IF len_sequence = 0
       THEN /\ Raise("ZeroDivisionError")
            /\ UNCHANGED <<content_plan, input_index, gen_content_plan, copy_values,
                           input_word, batchVars, use_teacher_forcing, pos, copy_pos,
                           copy_index, loss, len_sequence, state_output>>
       ELSE /\ state_output' = ReturnValue(loss, len_sequence)
            /\ content_plan' = <<>>
            /\ input_index' = PAD
            /\ gen_content_plan' = <<>>
            /\ copy_values' = <<>>
            /\ input_word' = PAD
            /\ text' = <<>>
            /\ copy_tgts' = <<>>
            /\ copy_indices' = <<>>
            /\ use_teacher_forcing' = FALSE
            /\ pos' = 0
            /\ copy_pos' = 0
            /\ copy_index' = 0
            /\ loss' = <<>>
            /\ len_sequence' = 0
            /\ pc' = "tr_iteration_completed"
            /\ UNCHANGED fault
    /\ UNCHANGED <<encoderVars, selected_content, generated_plan, size, loader_len,
                   gen_encoded, text_len, configVars, engineVars, grads, startupVars>>

(***************************************************************************)
(* The ignite engine: trainer.run(loader, epochs) and the handlers.        *)
(***************************************************************************)
\* ModelCheckpoint saves on every save_interval-th call.
CheckpointDueOffByOne(n) == n % SaveInterval = 1
CheckpointDue(n) == n % SaveInterval = 0

\* What an evaluation pass leaves in the model: the memory of its last example.
EvalPassLeaves ==
    IF kind = "planner"
    THEN /\ \E n \in {MaxRecords - 1, MaxRecords} :
              /\ records' = RecordsOfSize(n)
              /\ encoded' = StoreEncoded(encoded, Encode(records', params))
              /\ selected_content' = encoded'
         /\ UNCHANGED gen_encoded
    ELSE /\ gen_encoded' = EncodeRecods(GeneratorPlan)
         /\ UNCHANGED <<records, encoded, selected_content>>

\* ITERATION_COMPLETED: _log_training_loss reads engine.state.output, which
\* is not read again before the next update replaces it.
LogTrainingLoss ==
    /\ pc = "tr_iteration_completed"
    /\ state_output' = NoOutput
    /\ pc' = "tr_batch"
    /\ UNCHANGED <<encoderVars, plannerEvalVars, generatorEvalVars, configVars, engineVars,
                   batchVars, use_teacher_forcing, pos, copy_pos, copy_index, loss,
                   len_sequence, grads, fault, startupVars>>

\* EPOCH_COMPLETED, first handler: the ModelCheckpoint.
CheckpointHandler ==
    /\ pc = "tr_batch"
    /\ iteration >= epoch * max_iters
    /\ ckpt_iteration' = ckpt_iteration + 1
    /\ events' = IF CheckpointDue(ckpt_iteration')
                 THEN Append(events, <<"checkpoint", epoch>>)
                 ELSE events
    /\ pc' = "tr_validate"
    /\ UNCHANGED <<encoderVars, plannerEvalVars, generatorEvalVars, configVars, epoch,
                   iteration, batchVars, updateVars, startupVars>>

\* EPOCH_COMPLETED, second handler: _validate.
Validate ==
    /\ pc = "tr_validate"
    /\ events' = Append(events, <<"validate", epoch>>)
    /\ EvalPassLeaves
    /\ pc' = "tr_epoch_start"
    /\ UNCHANGED <<params, got, content_plan, input_index, generated_plan, size, loader_len,
                   gen_content_plan, copy_values, input_word, text_len, configVars, epoch,
                   iteration, ckpt_iteration, batchVars, updateVars, startupVars>>

\* The engine's epoch loop: the next epoch, or COMPLETED.
EpochStarted ==
    /\ pc = "tr_epoch_start"
    /\ IF epoch < epochs
       THEN epoch' = epoch + 1 /\ pc' = "tr_batch"
       ELSE pc' = "tr_completed" /\ UNCHANGED epoch
    /\ UNCHANGED <<encoderVars, plannerEvalVars, generatorEvalVars, configVars, iteration,
                   ckpt_iteration, events, batchVars, updateVars, startupVars>>

\* COMPLETED: _test.
Test ==
    /\ pc = "tr_completed"
    /\ events' = Append(events, <<"test", epoch>>)
    /\ EvalPassLeaves
    /\ pc' = "tr_finished"
    /\ UNCHANGED <<params, got, content_plan, input_index, generated_plan, size, loader_len,
                   gen_content_plan, copy_values, input_word, text_len, configVars, epoch,
                   iteration, ckpt_iteration, batchVars, updateVars, startupVars>>

\* trainer.run has returned. train_planner saves models/content_planner.pt
\* itself; train_generator returns the model, which get_generator saves.
FinishTraining ==
    /\ pc = "tr_finished"
    /\ files' = IF kind = "planner" \/ entry = "get_generator"
                THEN [files EXCEPT ![kind] = TRUE]
                ELSE files
    /\ result' = "trained"
    /\ pc' = "exit"
    /\ UNCHANGED <<encoderVars, plannerEvalVars, generatorEvalVars, configVars, engineVars,
                   batchVars, updateVars, entry, runs, trained, file_at_start>>

NextTrain ==
    \/ PlannerUpdateStart
    \/ PlannerDecodeStep
    \/ GeneratorUpdateStart
    \/ GeneratorDecodeStep
    \/ DecodeEnd
    \/ Backward
    \/ ClipGradNorm
    \/ OptimizerStep
    \/ UpdateReturn
    \/ LogTrainingLoss
    \/ CheckpointHandler
    \/ Validate
    \/ EpochStarted
    \/ Test
    \/ FinishTraining

\* A process that has just called train_planner or train_generator.
TrainingCalled(k) ==
    /\ pc = "tr_epoch_start"
    /\ params = 0
    /\ records = <<>>
    /\ encoded = NoCache
    /\ got = NoResult
    /\ IdlePlannerEval
    /\ IdleGeneratorEval
    /\ kind = k
    /\ IdleEngine
    /\ IdleUpdate

\* train_planner (as main.py calls it) or train_generator, for one epoch over
\* one or two examples, at teacher forcing ratios 0.5 and 1.0.
InitTrain ==
    /\ \/ TrainingCalled("planner") /\ entry = "main" /\ seq_len \in 1..MaxPlanLen
       \/ TrainingCalled("generator") /\ entry = "train_generator" /\ seq_len \in 1..MaxTextLen
    /\ epochs = 1
    /\ max_iters \in {1, 2}
    /\ ratio \in {1, 2}
    /\ files = [planner |-> FALSE, generator |-> FALSE]
    /\ runs = 1
    /\ trained = TRUE
    /\ file_at_start = FALSE
    /\ result = "none"

SpecTrain == InitTrain /\ [][NextTrain]_vars

(***************************************************************************)
(* What the claims about an update speak of.                               *)
(***************************************************************************)
\* The control positions inside _update, after its set-up.
UpdatePcs == {"up_loop", "up_backward", "up_clip", "up_step", "up_return"}

\* The gold sequence the running update iterates over.
Gold == IF kind = "planner" THEN content_plan ELSE text

\* An update is running, or has raised, on an example whose gold sequence
\* has no non-padding position after the first.
OnEmptyGold ==
    /\ pc \in UpdatePcs \cup {"aborted"}
    /\ Gold # <<>>
    /\ \A k \in 2..Len(Gold) : Gold[k] = PAD

\* The flagged positions among positions 2..p of the gold text.
FlagsUpTo(p) == Cardinality({k \in 2..p : copy_tgts[k] # 0})

\* The gold item that follows gold position p as decoder input.
GoldInputAt(p) ==
    IF kind = "planner" THEN content_plan[p]
    ELSE IF p > 1 /\ copy_tgts[p] # 0
         THEN copy_values[copy_indices[FlagsUpTo(p)] + 1]
         ELSE text[p]

\* The decoder input of the running update.
DecoderInput == IF kind = "planner" THEN input_index ELSE input_word

(***************************************************************************)
(* C5, as amended: an example with no non-padding position after the       *)
(* initial input is not guarded and its update raises, but at              *)
(* loss.backward(), on the integer 0 that loss still is: clipping, the     *)
(* optimizer step and the division by len_sequence are never reached.      *)
(***************************************************************************)
C5_EmptyGoldRaisesAtBackward ==
    OnEmptyGold =>
        /\ pc \in {"up_loop", "up_backward", "aborted"}
        /\ loss = <<>>
        /\ len_sequence = 0
        /\ pc = "aborted" =>
              /\ fault = "AttributeError"
              /\ grads.state = "zero"
              /\ params = iteration - 1

\* A padded text that is BOS only: its update has raised.
C5_Witness ==
    /\ OnEmptyGold
    /\ pc = "aborted"
    /\ fault = "AttributeError"
    /\ Len(Gold) >= 2
    /\ Gold[1] = BOS

\* C5 as stated: the update raises a division by zero.
C5_AsClaimed == (OnEmptyGold /\ pc = "aborted") => fault = "ZeroDivisionError"

(***************************************************************************)
(* C7: at teacher forcing ratio 1.0 every update uses teacher forcing,     *)
(* whatever random() returns, and the decoder input is at every step the   *)
(* gold item of the example: the inputs are a function of the example.     *)
(***************************************************************************)
C7_TeacherForcingFeedsGold ==
    (ratio = 2 /\ pc \in UpdatePcs) =>
        /\ use_teacher_forcing
        /\ DecoderInput = GoldInputAt(pos - 1)
        /\ kind = "planner" =>
              \A k \in 1..Len(loss) : loss[k] = NllTerm(k + 1, content_plan[k + 1])

\* A generator update at ratio 1.0 that has just fed a copied record's word.
C7_Witness ==
    /\ ratio = 2
    /\ pc = "up_loop"
    /\ kind = "generator"
    /\ pos = 4
    /\ copy_tgts[3] # 0
    /\ copy_tgts[2] # 0
    /\ copy_indices[1] # copy_indices[2]

(***************************************************************************)
(* C9: in generator training every processed position adds the copy gate's *)
(* cross-entropy against the gold flag and exactly one of the copy-pointer *)
(* and the vocabulary log-likelihood terms, chosen by the gold flag; the   *)
(* sum is what is backpropagated, and only the returned value is divided   *)
(* by the sequence length.                                                 *)
(***************************************************************************)
C9_TwoLossTermsPerPosition ==
    kind = "generator" =>
        /\ (pc \in UpdatePcs /\ fault = "none") =>
              /\ len_sequence = pos - 2
              /\ Len(loss) = 2 * len_sequence
              /\ \A k \in 1..len_sequence :
                    /\ loss[2 * k - 1] = BceTerm(k + 1, copy_tgts[k + 1])
                    /\ loss[2 * k] =
                          IF copy_tgts[k + 1] # 0
                          THEN CopyNllTerm(k + 1, copy_indices[FlagsUpTo(k + 1)])
                          ELSE VocabNllTerm(k + 1, text[k + 1])
        /\ pc \in {"up_clip", "up_step", "up_return"} => grads.of = loss
        /\ pc = "tr_iteration_completed" =>
              /\ state_output.len_sequence > 0
              /\ Len(state_output.loss) = 2 * state_output.len_sequence
              /\ grads.of = state_output.loss

\* An update over a flagged and an unflagged position has returned.
C9_Witness ==
    /\ kind = "generator"
    /\ pc = "tr_iteration_completed"
    /\ state_output.len_sequence = 2
    /\ state_output.loss[2].kind = "copy_nll"
    /\ state_output.loss[4].kind = "vocab_nll"

(***************************************************************************)
(* C10: an update that raises ends the training run there: the optimizer   *)
(* step of that example is not taken, no further step of the run is taken  *)
(* (no retry, no later example), no test pass runs and no model is saved.  *)
(***************************************************************************)
C10_FailedExampleAborts ==
    fault # "none" =>
        /\ pc = "aborted"
        /\ ~ENABLED NextTrain
        /\ params = iteration - 1
        /\ \A k \in 1..Len(events) : events[k][1] # "test"
        /\ files = [planner |-> FALSE, generator |-> FALSE]
        /\ result = "none"

\* The first of two examples has raised.
C10_Witness ==
    /\ fault # "none"
    /\ iteration = 1
    /\ max_iters = 2

(***************************************************************************)
(* Whole training runs: trainer.run(loader, epochs) over 1..MaxEpochs      *)
(* epochs of one example each.                                             *)
(***************************************************************************)
InitSchedule ==
    /\ \/ TrainingCalled("planner") /\ entry = "main"
       \/ TrainingCalled("generator") /\ entry = "train_generator"
    /\ seq_len = 2
    /\ epochs \in 1..MaxEpochs
    /\ max_iters = 1
    /\ ratio = 2
    /\ files = [planner |-> FALSE, generator |-> FALSE]
    /\ runs = 1
    /\ trained = TRUE
    /\ file_at_start = FALSE
    /\ result = "none"

SpecSchedule == InitSchedule /\ [][NextTrain]_vars

\* The checkpoints and validation passes of epochs 1..e, in order, as C8
\* states them.
RECURSIVE ScheduleThrough(_)
ScheduleThrough(e) ==
    IF e = 0 THEN <<>>
    ELSE ScheduleThrough(e - 1)
            \o (IF e % 4 = 0 THEN <<<<"checkpoint", e>>>> ELSE <<>>)
            \o <<<<"validate", e>>>>

(***************************************************************************)
(* C8: in a run of E epochs a checkpoint is written at the end of exactly  *)
(* the epochs whose number is a multiple of 4, a validation pass runs at   *)
(* the end of every epoch after that epoch's checkpoint handler, and one   *)
(* test pass runs after the last epoch's validation, when the run          *)
(* completes.                                                              *)
(***************************************************************************)
C8_CheckpointValidateTestSchedule ==
    /\ pc \in UpdatePcs \cup {"tr_batch", "tr_iteration_completed", "aborted"} =>
          /\ epoch \in 1..epochs
          /\ events = ScheduleThrough(epoch - 1)
    /\ pc = "tr_validate" =>
          /\ epoch \in 1..epochs
          /\ events = ScheduleThrough(epoch - 1)
                         \o (IF epoch % 4 = 0 THEN <<<<"checkpoint", epoch>>>> ELSE <<>>)
    /\ pc = "tr_epoch_start" => events = ScheduleThrough(epoch)
    /\ pc = "tr_completed" => epoch = epochs /\ events = ScheduleThrough(epochs)
    /\ pc \in {"tr_finished", "exit"} =>
          events = Append(ScheduleThrough(epochs), <<"test", epochs>>)

\* A run of eight epochs has returned: two checkpoints were written.
C8_Witness ==
    /\ pc = "exit"
    /\ epochs = 8
    /\ Len(events) = 11

(***************************************************************************)
(* Startup: the functions a process runs to obtain a model.                *)
(***************************************************************************)
\* main.py, get_generator, load_planner, planner_is_available.
Entries == {"main", "get_generator", "load_planner", "planner_is_available"}

\* The model whose file an entry function looks for or writes.
ModelOf(e) == IF e = "get_generator" THEN "generator" ELSE "planner"

\* main.py: train_planner(extractor), whether or not a planner is saved.
Main ==
    /\ pc = "start"
    /\ entry = "main"
    /\ trained' = TRUE
    /\ kind' = "planner"
    /\ pc' = "tr_epoch_start"
    /\ UNCHANGED <<encoderVars, plannerEvalVars, generatorEvalVars, seq_len, epochs,
                   max_iters, ratio, engineVars, batchVars, updateVars, files, entry, runs,
                   file_at_start, result>>

\* get_generator: load models/text_generator.pt if it exists, else train.
GetGenerator ==
    /\ pc = "start"
    /\ entry = "get_generator"
    /\ IF files["generator"]
       THEN /\ result' = "loaded"
            /\ pc' = "exit"
            /\ UNCHANGED <<kind, trained>>
       ELSE /\ trained' = TRUE
            /\ kind' = "generator"
            /\ pc' = "tr_epoch_start"
            /\ UNCHANGED result
    /\ UNCHANGED <<encoderVars, plannerEvalVars, generatorEvalVars, seq_len, epochs,
                   max_iters, ratio, engineVars, batchVars, updateVars, files, entry, runs,
                   file_at_start>>

\* load_planner: the saved planner if its file exists, else None.
LoadPlanner ==
    /\ pc = "start"
    /\ entry = "load_planner"
    /\ result' = IF files["planner"] THEN "loaded" ELSE "None"
    /\ pc' = "exit"
    /\ UNCHANGED <<encoderVars, plannerEvalVars, generatorEvalVars, configVars, engineVars,
                   batchVars, updateVars, files, entry, runs, trained, file_at_start>>

\* planner_is_available: whether the planner's file exists.
PlannerIsAvailable ==
    /\ pc = "start"
    /\ entry = "planner_is_available"
    /\ result' = IF files["planner"] THEN "True" ELSE "False"
    /\ pc' = "exit"
    /\ UNCHANGED <<encoderVars, plannerEvalVars, generatorEvalVars, configVars, engineVars,
                   batchVars, updateVars, files, entry, runs, trained, file_at_start>>

\* The process has ended, by return or by exception; another one starts
\* with fresh memory and the files the earlier ones left.
Restart ==
    /\ pc \in {"exit", "aborted"}
    /\ runs < MaxRuns
    /\ runs' = runs + 1
    /\ entry' \in Entries
    /\ file_at_start' = files[ModelOf(entry')]
    /\ trained' = FALSE
    /\ result' = "none"
    /\ kind' = "none"
    /\ pc' = "start"
    /\ params' = 0
    /\ records' = <<>>
    /\ encoded' = NoCache
    /\ got' = NoResult
    /\ selected_content' = NoCache
    /\ content_plan' = <<>>
    /\ input_index' = PAD
    /\ gen_content_plan' = <<>>
    /\ copy_values' = <<>>
    /\ gen_encoded' = <<>>
    /\ input_word' = PAD
    /\ epoch' = 0
    /\ iteration' = 0
    /\ ckpt_iteration' = 0
    /\ events' = <<>>
    /\ text' = <<>>
    /\ copy_tgts' = <<>>
    /\ copy_indices' = <<>>
    /\ use_teacher_forcing' = FALSE
    /\ pos' = 0
    /\ copy_pos' = 0
    /\ copy_index' = 0
    /\ loss' = <<>>
    /\ len_sequence' = 0
    /\ grads' = NoGrads
    /\ state_output' = NoOutput
    /\ fault' = "none"
    /\ UNCHANGED <<generated_plan, size, loader_len, text_len, seq_len, epochs, max_iters,
                   ratio, files>>

\* A process at the start of an entry function, with any of the two model
\* files present; training, where it runs, is one epoch over one example.
InitStartup ==
    /\ pc = "start"
    /\ params = 0
    /\ records = <<>>
    /\ encoded = NoCache
    /\ got = NoResult
    /\ IdlePlannerEval
    /\ IdleGeneratorEval
    /\ kind = "none"
    /\ seq_len = 2
    /\ epochs = 1
    /\ max_iters = 1
    /\ ratio = 2
    /\ IdleEngine
    /\ IdleUpdate
    /\ files \in [{"planner", "generator"} -> BOOLEAN]
    /\ entry \in Entries
    /\ runs = 1
    /\ trained = FALSE
    /\ file_at_start = files[ModelOf(entry)]
    /\ result = "none"

NextStartup ==
    \/ Main
    \/ GetGenerator
    \/ LoadPlanner
    \/ PlannerIsAvailable
    \/ Restart
    \/ NextTrain

SpecStartup == InitStartup /\ [][NextStartup]_vars

(***************************************************************************)
(* C4, as stated: for the planner (main.py) and for the generator          *)
(* (get_generator), a process that finds the model's file absent trains,   *)
(* one that finds it present does not train, and a training that has       *)
(* returned leaves the file behind.                                        *)
(***************************************************************************)
C4_AsClaimed ==
    (entry \in {"main", "get_generator"} /\ pc # "start") =>
        /\ trained <=> ~file_at_start
        /\ result = "trained" => files[ModelOf(entry)]

(***************************************************************************)
(* C11: every example's update runs zero gradients, the whole decode loop, *)
(* backpropagation of the accumulated loss, clipping of the gradient norm  *)
(* at 7, optimizer step, in this order; the one optimizer step of an       *)
(* example comes after its backpropagation and clipping, and the next      *)
(* example starts only when the update before it has returned.             *)
(***************************************************************************)
C11_UpdateStepOrder ==
    /\ [](/\ pc \in {"up_loop", "up_backward"} =>
                grads.state = "zero" /\ params = iteration - 1
          /\ pc = "up_backward" => ~DecodeGoesOn(Gold, pos)
          /\ pc = "up_clip" =>
                grads = [state |-> "computed", of |-> loss, max_norm |-> 0]
                   /\ params = iteration - 1
          /\ pc = "up_step" =>
                grads = [state |-> "clipped", of |-> loss, max_norm |-> 7]
                   /\ params = iteration - 1
          /\ pc \in {"up_return", "tr_iteration_completed"} =>
                grads.state = "clipped" /\ params = iteration
          /\ pc = "aborted" => params = iteration - 1
          /\ pc \in {"tr_batch", "tr_validate", "tr_epoch_start", "tr_completed",
                     "tr_finished", "exit"} => params = iteration)
    /\ [][/\ params' # params =>
                /\ params' = params + 1
                /\ pc = "up_step"
                /\ grads.state = "clipped"
                /\ loss # <<>>
          /\ iteration' # iteration =>
                /\ iteration' = iteration + 1
                /\ pc = "tr_batch"
                /\ params = iteration
                /\ grads'.state = "zero"]_vars

\* The second example of an epoch has taken its optimizer step.
C11_Witness ==
    /\ pc = "up_return"
    /\ iteration = 2
    /\ params = 2
    /\ grads.max_norm = 7

\* The gold positions strictly between the first position and the first
\* padding position after it.
StepsDue(g) == {k \in 2..Len(g) : \A j \in 2..k : g[j] # PAD}

(***************************************************************************)
(* C12: the training loop takes the first gold position as the initial     *)
(* decoder input and runs one decoder step per following gold position up  *)
(* to the first padding position: len_sequence ends as the number of gold  *)
(* positions between the first one and the first padding, and no padding   *)
(* position adds a loss term or is fed to the decoder.                     *)
(***************************************************************************)
C12_LoopStopsAtFirstPadding ==
    (pc \in UpdatePcs \cup {"aborted"}) =>
        /\ \A i \in 1..Len(loss) : loss[i].pos \in StepsDue(Gold)
        /\ len_sequence <= Cardinality(StepsDue(Gold))
        /\ fault = "none" =>
              /\ len_sequence = pos - 2
              /\ \A k \in 2..(pos - 1) :
                    /\ k \in StepsDue(Gold)
                    /\ \E i \in 1..Len(loss) : loss[i].pos = k
              /\ pos = 2 => DecoderInput = Gold[1]
              /\ (pos > 2 /\ use_teacher_forcing) =>
                    /\ pos - 1 \in StepsDue(Gold)
                    /\ DecoderInput = GoldInputAt(pos - 1)
        /\ pc \in {"up_backward", "up_clip", "up_step", "up_return"} =>
              len_sequence = Cardinality(StepsDue(Gold))

\* An update over a gold sequence of two items and padding has run its one
\* decoder step and stopped at the padding.
C12_Witness ==
    /\ pc = "up_return"
    /\ Len(Gold) = 3
    /\ Gold[2] # PAD
    /\ Gold[3] = PAD
    /\ len_sequence = 1

(***************************************************************************)
(* C13: in generator training the copy-index sequence is consumed in       *)
(* order and at flagged positions only: the k-th flagged position after    *)
(* the first position uses the k-th entry, unflagged positions and the     *)
(* first position's flag consume none, and the entries consumed number the *)
(* flagged positions processed. At the first flagged position with no      *)
(* entry left the update fails, with no index reused and no optimizer      *)
(* step taken.                                                             *)
(***************************************************************************)
C13_CopyIndicesConsumedInOrder ==
    (kind = "generator" /\ pc \in UpdatePcs \cup {"aborted"}) =>
        /\ copy_pos - 1 = FlagsUpTo(pos - 1) + (IF fault = "IndexError" THEN 1 ELSE 0)
        /\ copy_pos - 1 <= Len(copy_indices)
        /\ \A i \in 1..Len(loss) :
              /\ loss[i].kind = "copy_nll" =>
                    /\ copy_tgts[loss[i].pos] # 0
                    /\ FlagsUpTo(loss[i].pos) \in 1..Len(copy_indices)
                    /\ loss[i].target = copy_indices[FlagsUpTo(loss[i].pos)]
              /\ loss[i].kind = "vocab_nll" => copy_tgts[loss[i].pos] = 0
        /\ (pc = "up_loop" /\ pos > 2 /\ use_teacher_forcing /\ copy_tgts[pos - 1] # 0) =>
              input_word = copy_values[copy_indices[copy_pos - 1] + 1]
        /\ (pc \in UpdatePcs /\ DecodeGoesOn(text, pos) /\ copy_tgts[pos] # 0
               /\ copy_pos > Len(copy_indices)) => pc = "up_loop"
        /\ fault = "StopIteration" =>
              /\ pc = "aborted"
              /\ copy_tgts[pos] # 0
              /\ FlagsUpTo(pos) = Len(copy_indices) + 1
              /\ \A i \in 1..Len(loss) : loss[i].kind = "copy_nll" => loss[i].pos < pos
              /\ grads.state = "zero"
              /\ params = iteration - 1

\* The text's second flagged position found the single copy index already
\* consumed by the first.
C13_Witness ==
    /\ kind = "generator"
    /\ fault = "StopIteration"
    /\ pos = 3
    /\ Len(copy_indices) = 1
    /\ copy_tgts[1] = 0
    /\ Len(loss) = 3

====
